---- MODULE Spec2Model ----
(***************************************************************************)
(* Model of the stock-management data layer of server.ts: the tables       *)
(* items, daily_checks and purchases, and the request handlers over them,  *)
(* on both storage backends (better-sqlite3 and @vercel/postgres).         *)
(*                                                                         *)
(* Modelling decisions, each taken from the source:                        *)
(*  - usePostgres is fixed at start-up (server.ts:217) and every handler   *)
(*    branches on it.                                                      *)
(*  - A SQLite handler contains no await: it runs to completion as one     *)
(*    step.  The Postgres branch of POST /api/checks awaits every          *)
(*    statement (server.ts:447-453); every statement is its own            *)
(*    auto-committed step and other requests may run between two of them.  *)
(*  - Foreign keys are enforced by both backends: Postgres by REFERENCES   *)
(*    items(id) (server.ts:311,332), better-sqlite3 because its bundled    *)
(*    SQLite is built with foreign key enforcement on by default.          *)
(*  - Dates are the text "YYYY-MM-DD"; text values that start with a date  *)
(*    are modelled as <<day number, suffix>>, compared as the text is.     *)
(*  - A table is the sequence of its rows in rowid order.  The columns     *)
(*    daily_checks.id, checked_at and purchased_at are not modelled.       *)
(***************************************************************************)
EXTENDS Integers, Sequences, FiniteSets, TLC

VARIABLES
    usePostgres,    \* server.ts:217, chosen at start-up
    items,          \* table items: set of rows
    itemSeq,        \* last id handed out for items (AUTOINCREMENT / SERIAL)
    daily_checks,   \* table daily_checks: rows in rowid order
    purchases,      \* table purchases: rows in rowid order
    purchaseSeq,    \* last id handed out for purchases
    today,          \* the clock: the current UTC day number
    reqs,           \* POST /api/checks requests in flight on Postgres
    resp,           \* the last response sent, with the request it answers
    lastSubmit,     \* history: the last checklist submission that succeeded
    nSubmit,        \* history: how many POST /api/checks requests were received
    ui,             \* App.tsx: the state of the App component in one browser
    issuedIds       \* history: the ids the rows of items have ever had

vars == <<usePostgres, items, itemSeq, daily_checks, purchases, purchaseSeq,
          today, reqs, resp, lastSubmit, nSubmit, ui, issuedIds>>

----------------------------------------------------------------------------
(* Bounds of the model *)

SeedLen == 2          \* how many rows of the starter catalog are modelled
MaxItemSeq == 3       \* items ids handed out
MaxPurchaseSeq == 2   \* purchases ids handed out
MaxItemPurchases == 1 \* purchases ids handed out in the items specification
MaxCheckDay == 1      \* last day of the clock where the week does not matter
MaxDay == 8           \* last day of the clock in the statistics specification
MaxSubmits == 3       \* checklist requests in the checklist specification
MaxOverlap == 2       \* checklist requests in the overlap specification
MaxItemSubmits == 1   \* checklist requests in the items specification
MaxTwinPurchases == 3 \* purchases ids handed out in the same-name specification
MaxStorePurchases == 3 \* purchases ids handed out in the stores specification
MaxRestartSeq == 7    \* items ids handed out in the restart specification
MaxFrameSubmits == 2  \* checklist requests in the frame specification
MaxAppSubmits == 1    \* checklist requests in the App specification
MaxAppEdits == 3      \* status changes and urgent toggles in the App specification
MaxListSeq == 4       \* items ids handed out in the item list specification

NULL == "NULL"

\* the clients that may have a POST /api/checks in flight at the same time
Clients == {"a", "b"}

----------------------------------------------------------------------------
(* Values and conversions *)

\* `x ? 1 : 0`: how the SQLite branch binds a boolean
SqliteBool(b) == IF b THEN 1 ELSE 0

\* a boolean column as the backend stores it
StoreBool(b) == IF usePostgres THEN b ELSE SqliteBool(b)

\* the truth value a stored boolean column denotes
Truthy(v) == IF usePostgres THEN v ELSE v # 0

\* new Date().toISOString().split('T')[0]: the text "YYYY-MM-DD" of a day
IsoDate(day) == <<day, 0>>

\* text comparison a >= b of two texts that start with a date: the dates
\* decide, and of two texts with the same date the one that stops there is
\* a proper prefix of the other and so the smaller one
TextGE(a, b) == \/ a[1] > b[1]
                \/ a[1] = b[1] /\ a[2] >= b[2]

Range(s) == {s[i] : i \in DOMAIN s}

ItemIds == {i.id : i \in items}

ItemById(id) == CHOOSE i \in items : i.id = id

\* FOREIGN KEY(item_id) REFERENCES items(id): some row refers to the item
Referenced(id) ==
    \/ \E k \in DOMAIN daily_checks : daily_checks[k].item_id = id
    \/ \E k \in DOMAIN purchases : purchases[k].item_id = id

----------------------------------------------------------------------------
(* Start-up: schema creation and seeding *)

initialItems ==
    << [name |-> "Milk (Full cream)", category |-> "Coffee & Beverages",
        is_core |-> TRUE, unit |-> "cartons"],
       [name |-> "Milk (Almond)", category |-> "Coffee & Beverages",
        is_core |-> TRUE, unit |-> "cartons"],
       [name |-> "Coffee beans", category |-> "Coffee & Beverages",
        is_core |-> TRUE, unit |-> "kg"],
       [name |-> "Sugar", category |-> "Coffee & Beverages",
        is_core |-> FALSE, unit |-> "bags"],
       [name |-> "Syrups", category |-> "Coffee & Beverages",
        is_core |-> FALSE, unit |-> "bottles"],
       [name |-> "Bread", category |-> "Kitchen Items",
        is_core |-> TRUE, unit |-> "loaves"],
       [name |-> "Eggs", category |-> "Kitchen Items",
        is_core |-> TRUE, unit |-> "trays"],
       [name |-> "Cheese", category |-> "Kitchen Items",
        is_core |-> FALSE, unit |-> "blocks"],
       [name |-> "Butter", category |-> "Kitchen Items",
        is_core |-> FALSE, unit |-> "packs"],
       [name |-> "Tomatoes", category |-> "Kitchen Items",
        is_core |-> FALSE, unit |-> "kg"],
       [name |-> "Muffins", category |-> "Bakery Items",
        is_core |-> FALSE, unit |-> "units"],
       [name |-> "Croissants", category |-> "Bakery Items",
        is_core |-> FALSE, unit |-> "units"],
       [name |-> "Cookies", category |-> "Bakery Items",
        is_core |-> FALSE, unit |-> "units"] >>

\* the rows the seeding inserts into an empty items table whose id counter
\* stands at seq; min_level is not bound and takes its DEFAULT 0
SeedRows(pg, seq) ==
    { [id |-> seq + k,
       name |-> initialItems[k].name,
       category |-> initialItems[k].category,
       min_level |-> 0,
       is_core |-> IF pg THEN initialItems[k].is_core
                   ELSE SqliteBool(initialItems[k].is_core),
       unit |-> initialItems[k].unit] : k \in 1..SeedLen }

NoResp == [op |-> "none", status |-> 0, req |-> NULL, body |-> NULL]

\* the state of App when it is mounted: the useState initial values, with
\* the history fields payload (the items of the last POST /api/checks the
\* component sent), sentAt (nSubmit when it was sent), alert (the last
\* alert shown) and edits (how many status changes and urgent toggles were
\* made).  checks maps the ids that have an entry to the entry
UiInitial ==
    [items |-> <<>>, checks |-> <<>>, staffName |-> "", isSubmitting |-> FALSE,
     isMorningCheckDone |-> FALSE, payload |-> <<>>, sentAt |-> 0,
     alert |-> "none", edits |-> 0]

\* a request slot that holds no request
Idle == [pc |-> "idle", date |-> <<0, 0>>, items |-> <<>>, staff_name |-> NULL,
         k |-> 0, before |-> <<>>, overlapped |-> FALSE]

NoSubmit == [date |-> <<-1, 0>>, items |-> <<>>, staff_name |-> NULL,
             before |-> <<>>, overlapped |-> FALSE]

Init ==
    /\ usePostgres \in BOOLEAN
    /\ items = SeedRows(usePostgres, 0)
    /\ itemSeq = SeedLen
    /\ daily_checks = <<>>
    /\ purchases = <<>>
    /\ purchaseSeq = 0
    /\ today = 0
    /\ reqs = [r \in Clients |-> Idle]
    /\ lastSubmit = NoSubmit
    /\ nSubmit = 0
    /\ resp = NoResp
    /\ ui = UiInitial
    /\ issuedIds = {r.id : r \in SeedRows(usePostgres, 0)}

\* the outcome of a start of the process, kept in resp; failed_at is the
\* statement of the start-up that failed, -1 when none did
Started(failed_at, outcome) ==
    [op |-> "Start", status |-> 0, req |-> [failed_at |-> failed_at],
     body |-> outcome]

\* the process starts again on the storage it left: CREATE TABLE IF NOT
\* EXISTS keeps the tables, and the seeding runs when SELECT COUNT(*) FROM
\* items gives 0; the requests that were in flight are gone
Restart ==
    /\ IF items = {}
       THEN /\ items' = SeedRows(usePostgres, itemSeq)
            /\ itemSeq' = itemSeq + SeedLen
       ELSE UNCHANGED <<items, itemSeq>>
    /\ reqs' = [r \in Clients |-> Idle]
    /\ resp' = Started(-1, "serving")
    /\ issuedIds' = issuedIds \cup {i.id : i \in items'}
    /\ UNCHANGED <<ui, usePostgres, daily_checks, purchases, purchaseSeq, today,
                   lastSubmit, nSubmit>>

\* a start during which the storage fails: at a CREATE TABLE or the COUNT
\* (k = 0), or at the k-th INSERT of the seeding, whose earlier inserts are
\* committed one by one.  Postgres: the catch of initPostgres logs the error
\* and returns, and startServer goes on to serve requests.  SQLite: the
\* statement throws at module level and the process ends
StartFault(k) ==
    /\ k > 0 => items = {}
    /\ items' = IF k > 0
                THEN {r \in SeedRows(usePostgres, itemSeq) : r.id < itemSeq + k}
                ELSE items
    /\ itemSeq' = IF k > 0 THEN itemSeq + k - 1 ELSE itemSeq
    /\ reqs' = [r \in Clients |-> Idle]
    /\ resp' = Started(k, IF usePostgres THEN "serving" ELSE "crashed")
    /\ issuedIds' = issuedIds \cup {i.id : i \in items'}
    /\ UNCHANGED <<ui, usePostgres, daily_checks, purchases, purchaseSeq, today,
                   lastSubmit, nSubmit>>

\* the process is there to handle a request
Up == ~(resp.op = "Start" /\ resp.body = "crashed")

----------------------------------------------------------------------------
(* The clock *)

Tick(last) ==
    /\ today < last
    /\ \E d \in (today + 1)..last : today' = d
    /\ UNCHANGED <<ui, issuedIds, usePostgres, items, itemSeq, daily_checks, purchases,
                   purchaseSeq, reqs, resp, lastSubmit, nSubmit>>

----------------------------------------------------------------------------
(* Items *)

NameInputs == {NULL, "", "Oat milk"}
CategoryInputs == {"", "Bakery Items"}

ItemBodies ==
    { [name |-> n, category |-> c, min_level |-> 0, is_core |-> FALSE,
       unit |-> "units"] : n \in NameInputs, c \in CategoryInputs }

\* the ids a request may name: every id ever handed out and one never used
ItemIdInputs == 1..(MaxItemSeq + 1)

\* name TEXT NOT NULL, category TEXT NOT NULL: the only checks on an insert
ItemInsertOk(body) == body.name # NULL /\ body.category # NULL

\* the UTF-8 bytes of a text of the model, which ORDER BY compares
Bytes(text) ==
    CASE text = "" -> <<>>
      [] text = "Oat milk" -> <<79, 97, 116, 32, 109, 105, 108, 107>>
      [] text = "Milk (Full cream)" -> <<77, 105, 108, 107, 32, 40, 70, 117, 108, 108, 32, 99, 114, 101, 97, 109, 41>>
      [] text = "Milk (Almond)" -> <<77, 105, 108, 107, 32, 40, 65, 108, 109, 111, 110, 100, 41>>
      [] text = "Coffee beans" -> <<67, 111, 102, 102, 101, 101, 32, 98, 101, 97, 110, 115>>
      [] text = "Sugar" -> <<83, 117, 103, 97, 114>>
      [] text = "Syrups" -> <<83, 121, 114, 117, 112, 115>>
      [] text = "Bread" -> <<66, 114, 101, 97, 100>>
      [] text = "Eggs" -> <<69, 103, 103, 115>>
      [] text = "Cheese" -> <<67, 104, 101, 101, 115, 101>>
      [] text = "Butter" -> <<66, 117, 116, 116, 101, 114>>
      [] text = "Tomatoes" -> <<84, 111, 109, 97, 116, 111, 101, 115>>
      [] text = "Muffins" -> <<77, 117, 102, 102, 105, 110, 115>>
      [] text = "Croissants" -> <<67, 114, 111, 105, 115, 115, 97, 110, 116, 115>>
      [] text = "Cookies" -> <<67, 111, 111, 107, 105, 101, 115>>
      [] text = "Coffee & Beverages" -> <<67, 111, 102, 102, 101, 101, 32, 38, 32, 66, 101, 118, 101, 114, 97, 103, 101, 115>>
      [] text = "Kitchen Items" -> <<75, 105, 116, 99, 104, 101, 110, 32, 73, 116, 101, 109, 115>>
      [] text = "Bakery Items" -> <<66, 97, 107, 101, 114, 121, 32, 73, 116, 101, 109, 115>>

\* a < b of two texts as ORDER BY compares them: byte by byte, and a proper
\* prefix is the smaller one
BytesLT(a, b) ==
    \E k \in 1..Len(b) :
        /\ k <= Len(a) + 1
        /\ \A j \in 1..(k - 1) : a[j] = b[j]
        /\ k = Len(a) + 1 \/ a[k] < b[k]

\* row r is not after row q in ORDER BY category, name
CategoryNameLE(r, q) ==
    \/ BytesLT(Bytes(r.category), Bytes(q.category))
    \/ /\ r.category = q.category
       /\ ~BytesLT(Bytes(q.name), Bytes(r.name))

\* ORDER BY name: the category is left out of the order
OrderByName(rows) ==
    LET n == Cardinality(rows)
    IN { f \in [1..n -> rows] :
           /\ \A i, j \in 1..n : i # j => f[i] # f[j]
           /\ \A i, j \in 1..n :
                 i < j => ~BytesLT(Bytes(f[j].name), Bytes(f[i].name)) }

\* ORDER BY category, name: every order of the rows in which no row comes
\* before a row that is smaller in (category, name); the order of rows that
\* agree in both is not set by the query
OrderByCategoryName(rows) ==
    LET n == Cardinality(rows)
    IN { f \in [1..n -> rows] :
           /\ \A i, j \in 1..n : i # j => f[i] # f[j]
           /\ \A i, j \in 1..n : i < j => CategoryNameLE(f[i], f[j]) }

\* GET /api/items
ListItems ==
    /\ \E result \in OrderByCategoryName(items) :
          resp' = [op |-> "ListItems", status |-> 200, req |-> NULL,
                   body |-> result]
    /\ UNCHANGED <<ui, issuedIds, usePostgres, items, itemSeq, daily_checks, purchases,
                   purchaseSeq, today, reqs, lastSubmit, nSubmit>>

\* INTEGER PRIMARY KEY without AUTOINCREMENT: the id is one more than the
\* largest id in the table
NewItemIdRowid ==
    IF items = {} THEN 1
    ELSE (CHOOSE m \in ItemIds : \A id \in ItemIds : id <= m) + 1

\* id INTEGER PRIMARY KEY AUTOINCREMENT, id SERIAL PRIMARY KEY: the id of
\* the row an INSERT INTO items stores is one more than the last id handed
\* out
NewItemId == itemSeq + 1

\* POST /api/items
CreateItem(body) ==
    /\ IF ItemInsertOk(body)
       THEN /\ items' = items \cup
                  { [id |-> NewItemId, name |-> body.name,
                     category |-> body.category, min_level |-> body.min_level,
                     is_core |-> StoreBool(body.is_core), unit |-> body.unit] }
            /\ itemSeq' = itemSeq + 1
            /\ resp' = [op |-> "CreateItem", status |-> 200, req |-> body,
                        body |-> [id |-> NewItemId]]
       ELSE /\ items' = items
            \* a SERIAL value is drawn before the row is checked and is not
            \* given back; sqlite_sequence moves only on a successful insert
            /\ itemSeq' = IF usePostgres THEN itemSeq + 1 ELSE itemSeq
            /\ resp' = [op |-> "CreateItem", status |-> 500, req |-> body,
                        body |-> "error"]
    /\ issuedIds' = issuedIds \cup {i.id : i \in items'}
    /\ UNCHANGED <<ui, usePostgres, daily_checks, purchases, purchaseSeq, today,
                   reqs, lastSubmit, nSubmit>>

\* DeleteStmt with an existence check: the delete of an id that names no
\* item fails
DeleteStmtMustExist(id) ==
    IF id \notin ItemIds \/ Referenced(id)
    THEN [ok |-> FALSE, items |-> items]
    ELSE [ok |-> TRUE, items |-> {i \in items : i.id # id}]

\* DeleteStmt without the foreign keys: the delete always goes through
DeleteStmtNoForeignKey(id) ==
    [ok |-> TRUE, items |-> {i \in items : i.id # id}]

\* DELETE FROM items WHERE id = ?: the foreign keys of daily_checks and
\* purchases reject the delete of an item some row refers to; a delete that
\* matches no row succeeds
DeleteStmt(id) ==
    IF id \in ItemIds /\ Referenced(id)
    THEN [ok |-> FALSE, items |-> items]
    ELSE [ok |-> TRUE, items |-> {i \in items : i.id # id}]

\* DeleteItem with ON DELETE CASCADE: the rows that refer to the item go
\* with it
DeleteItemCascade(id) ==
    /\ items' = {i \in items : i.id # id}
    /\ daily_checks' = SelectSeq(daily_checks, LAMBDA row : row.item_id # id)
    /\ purchases' = SelectSeq(purchases, LAMBDA row : row.item_id # id)
    /\ resp' = [op |-> "DeleteItem", status |-> 200,
                req |-> [id |-> id, existed |-> id \in ItemIds,
                         referenced |-> Referenced(id)],
                body |-> [success |-> TRUE]]
    /\ UNCHANGED <<ui, issuedIds, usePostgres, itemSeq, purchaseSeq, today, reqs, lastSubmit,
                   nSubmit>>

\* DELETE /api/items/:id; resp.req records, with the id, what the
\* statement found
DeleteItem(id) ==
    /\ items' = DeleteStmt(id).items
    /\ resp' = [op |-> "DeleteItem",
                status |-> IF DeleteStmt(id).ok THEN 200 ELSE 500,
                req |-> [id |-> id, existed |-> id \in ItemIds,
                         referenced |-> Referenced(id)],
                body |-> IF DeleteStmt(id).ok THEN [success |-> TRUE]
                         ELSE "error"]
    /\ UNCHANGED <<ui, issuedIds, usePostgres, itemSeq, daily_checks, purchases, purchaseSeq,
                   today, reqs, lastSubmit, nSubmit>>

----------------------------------------------------------------------------
(* Daily checks *)

StockStatus == {"enough", "low", "critical"}

\* checklist entries of request bodies
Low1 == [item_id |-> 1, status |-> "low", quantity_needed |-> 0,
         is_urgent |-> TRUE]
Enough1 == [item_id |-> 1, status |-> "enough", quantity_needed |-> 0,
            is_urgent |-> FALSE]
Critical2 == [item_id |-> 2, status |-> "critical", quantity_needed |-> 5,
              is_urgent |-> FALSE]
Spoiled2 == [item_id |-> 2, status |-> "spoiled", quantity_needed |-> 0,
             is_urgent |-> FALSE]

\* the request bodies of POST /api/checks: one entry, two entries that
\* overlap the first body on item 1, a disjoint one, one that lists an item
\* twice, an empty one, and one whose second entry has no StockStatus
ChecklistBodies ==
    { [items |-> <<Low1>>, staff_name |-> "Alex"],
      [items |-> <<Enough1, Critical2>>, staff_name |-> "Sam"],
      [items |-> <<Critical2>>, staff_name |-> "Alex"],
      [items |-> <<Low1, Low1>>, staff_name |-> "Sam"],
      [items |-> <<>>, staff_name |-> "Alex"],
      [items |-> <<Low1, Spoiled2>>, staff_name |-> "Sam"] }

\* `check.quantity_needed || 0`
OrZero(q) == IF q = 0 THEN 0 ELSE q

\* whether the backend accepts the row of one entry: item_id REFERENCES
\* items(id), status NOT NULL, and on SQLite alone the CHECK on status
InsertCheckOk(check) ==
    /\ check.item_id \in ItemIds
    /\ check.status # NULL
    /\ usePostgres \/ check.status \in StockStatus

\* the row INSERT INTO daily_checks stores for one entry
CheckRow(date, check, staff_name) ==
    [date |-> date, item_id |-> check.item_id, status |-> check.status,
     quantity_needed |-> OrZero(check.quantity_needed),
     is_urgent |-> StoreBool(check.is_urgent), staff_name |-> staff_name]

\* the rows of one date, in table order
RowsOf(date) == SelectSeq(daily_checks, LAMBDA row : row.date = date)

\* DeleteOld without the WHERE clause: the rows of every date go
DeleteOldAll(date) == <<>>

\* DeleteOld that deletes nothing
DeleteOldNothing(date) == daily_checks

\* DELETE FROM daily_checks WHERE date = ?
DeleteOld(date) == SelectSeq(daily_checks, LAMBDA row : row.date # date)

\* the body of sqlite.transaction: the delete, then one insert per entry;
\* the first insert that throws rolls the whole transaction back
Transaction(date, checks, staff_name) ==
    IF \A k \in DOMAIN checks : InsertCheckOk(checks[k])
    THEN [ok |-> TRUE,
          rows |-> DeleteOld(date) \o
                   [k \in DOMAIN checks |-> CheckRow(date, checks[k], staff_name)]]
    ELSE [ok |-> FALSE, rows |-> daily_checks]

SubmitReq(date, body, overlapped) ==
    [date |-> date, items |-> body.items, staff_name |-> body.staff_name,
     before |-> RowsOf(date), overlapped |-> overlapped]

\* POST /api/checks, SQLite branch
SubmitChecklist(body) ==
    /\ ~usePostgres
    /\ LET date == IsoDate(today)
           tx == Transaction(date, body.items, body.staff_name)
           req == SubmitReq(date, body, FALSE)
       IN /\ daily_checks' = tx.rows
          /\ resp' = [op |-> "SubmitChecklist",
                      status |-> IF tx.ok THEN 200 ELSE 500,
                      req |-> req,
                      body |-> IF tx.ok THEN [success |-> TRUE] ELSE "error"]
          /\ lastSubmit' = IF tx.ok THEN req ELSE lastSubmit
    /\ nSubmit' = nSubmit + 1
    /\ UNCHANGED <<ui, issuedIds, usePostgres, items, itemSeq, purchases, purchaseSeq, today,
                   reqs>>

\* a slot keeps its last request after the answer, with pc "ok" or "failed"
InFlight == {r \in DOMAIN reqs : reqs[r].pc \in {"delete", "insert"}}

\* POST /api/checks, Postgres branch: the handler reads the body and the
\* clock and sends the DELETE
PgSubmitStart(r, body) ==
    /\ usePostgres
    /\ r \notin InFlight
    /\ LET req == SubmitReq(IsoDate(today), body, InFlight # {})
       IN reqs' = [q \in DOMAIN reqs |->
                     IF q = r
                     THEN [pc |-> "delete", date |-> req.date,
                           items |-> req.items, staff_name |-> req.staff_name,
                           k |-> 1, before |-> req.before,
                           overlapped |-> req.overlapped]
                     ELSE IF q \in InFlight
                          THEN [reqs[q] EXCEPT !.overlapped = TRUE]
                          ELSE reqs[q]]
    /\ lastSubmit' = NoSubmit
    /\ nSubmit' = nSubmit + 1
    /\ UNCHANGED <<ui, issuedIds, usePostgres, items, itemSeq, daily_checks, purchases,
                   purchaseSeq, today, resp>>

\* await sql`DELETE FROM daily_checks WHERE date = ${date}`
PgSubmitDelete(r) ==
    /\ usePostgres
    /\ reqs[r].pc = "delete"
    /\ daily_checks' = DeleteOld(reqs[r].date)
    /\ reqs' = [reqs EXCEPT ![r].pc = "insert"]
    /\ UNCHANGED <<ui, issuedIds, usePostgres, items, itemSeq, purchases, purchaseSeq, today,
                   resp, lastSubmit, nSubmit>>

PgReqOf(r) ==
    [date |-> reqs[r].date, items |-> reqs[r].items,
     staff_name |-> reqs[r].staff_name, before |-> reqs[r].before,
     overlapped |-> reqs[r].overlapped]

\* one turn of the loop: await sql`INSERT INTO daily_checks ...`; a rejected
\* insert throws into the catch, which answers 500
PgSubmitInsert(r) ==
    /\ usePostgres
    /\ reqs[r].pc = "insert"
    /\ reqs[r].k <= Len(reqs[r].items)
    /\ LET check == reqs[r].items[reqs[r].k]
       IN IF InsertCheckOk(check)
          THEN /\ daily_checks' = Append(daily_checks,
                      CheckRow(reqs[r].date, check, reqs[r].staff_name))
               /\ reqs' = [reqs EXCEPT ![r].k = @ + 1]
               /\ UNCHANGED resp
          ELSE /\ daily_checks' = daily_checks
               /\ reqs' = [reqs EXCEPT ![r].pc = "failed"]
               /\ resp' = [op |-> "SubmitChecklist", status |-> 500,
                           req |-> PgReqOf(r), body |-> "error"]
    /\ UNCHANGED <<ui, issuedIds, usePostgres, items, itemSeq, purchases, purchaseSeq, today,
                   lastSubmit, nSubmit>>

\* res.json({ success: true }) after the loop
PgSubmitRespond(r) ==
    /\ usePostgres
    /\ reqs[r].pc = "insert"
    /\ reqs[r].k > Len(reqs[r].items)
    /\ resp' = [op |-> "SubmitChecklist", status |-> 200, req |-> PgReqOf(r),
                body |-> [success |-> TRUE]]
    /\ lastSubmit' = IF reqs[r].overlapped THEN NoSubmit ELSE PgReqOf(r)
    /\ reqs' = [reqs EXCEPT ![r].pc = "ok"]
    /\ UNCHANGED <<ui, issuedIds, usePostgres, items, itemSeq, daily_checks, purchases,
                   purchaseSeq, today, nSubmit>>

\* the row of GET /api/checks/today: dc.* with the joined item's columns
JoinCheck(row) ==
    LET i == ItemById(row.item_id)
    IN [date |-> row.date, item_id |-> row.item_id, status |-> row.status,
        quantity_needed |-> row.quantity_needed, is_urgent |-> row.is_urgent,
        staff_name |-> row.staff_name, name |-> i.name,
        category |-> i.category, is_core |-> i.is_core, unit |-> i.unit]

\* SELECT ... FROM daily_checks dc JOIN items i ON dc.item_id = i.id
\* WHERE dc.date = ?
TodaysChecks(date) ==
    LET hit == SelectSeq(daily_checks,
                   LAMBDA row : row.date = date /\ row.item_id \in ItemIds)
    IN [k \in DOMAIN hit |-> JoinCheck(hit[k])]

\* GET /api/checks/today
GetTodaysChecks ==
    /\ resp' = [op |-> "GetTodaysChecks", status |-> 200,
                req |-> IsoDate(today), body |-> TodaysChecks(IsoDate(today))]
    /\ UNCHANGED <<ui, issuedIds, usePostgres, items, itemSeq, daily_checks, purchases,
                   purchaseSeq, today, reqs, lastSubmit, nSubmit>>

----------------------------------------------------------------------------
(* Purchases *)

\* the request bodies of POST /api/purchases; cost is in whole currency
\* units
PurchaseBodies ==
    { [item_id |-> 1, quantity |-> 5, cost |-> 12, store |-> "Costco"],
      [item_id |-> 1, quantity |-> 2, cost |-> 3, store |-> "coles"],
      [item_id |-> 2, quantity |-> 1, cost |-> 4, store |-> "Coles"],
      [item_id |-> 2, quantity |-> 3, cost |-> 7, store |-> NULL],
      [item_id |-> MaxItemSeq + 1, quantity |-> 1, cost |-> 1,
       store |-> "Coles"] }

\* InsertPurchaseOk without the foreign key: every insert goes through
InsertPurchaseUnchecked(body) == TRUE

\* item_id REFERENCES items(id): the one check on an insert of a body that
\* carries every column
InsertPurchaseOk(body) == body.item_id \in ItemIds

\* POST /api/purchases
RecordPurchase(body) ==
    /\ IF InsertPurchaseOk(body)
       THEN /\ purchases' = Append(purchases,
                   [id |-> purchaseSeq + 1, date |-> IsoDate(today),
                    item_id |-> body.item_id, quantity |-> body.quantity,
                    cost |-> body.cost, store |-> body.store])
            /\ purchaseSeq' = purchaseSeq + 1
            /\ resp' = [op |-> "RecordPurchase", status |-> 200, req |-> body,
                        body |-> [success |-> TRUE]]
       ELSE /\ purchases' = purchases
            /\ purchaseSeq' = IF usePostgres THEN purchaseSeq + 1
                              ELSE purchaseSeq
            \* err.message of the only failure of this insert
            /\ resp' = [op |-> "RecordPurchase", status |-> 500, req |-> body,
                        body |-> [error |-> "FOREIGN KEY constraint failed"]]
    /\ UNCHANGED <<ui, issuedIds, usePostgres, items, itemSeq, daily_checks, today, reqs,
                   lastSubmit, nSubmit>>

\* the row of GET /api/purchases: p.* with the joined item's name
JoinPurchase(row) ==
    [id |-> row.id, date |-> row.date, item_id |-> row.item_id,
     quantity |-> row.quantity, cost |-> row.cost, store |-> row.store,
     name |-> ItemById(row.item_id).name]

\* FROM purchases p JOIN items i ON p.item_id = i.id
JoinedPurchases ==
    LET hit == SelectSeq(purchases, LAMBDA row : row.item_id \in ItemIds)
    IN [k \in DOMAIN hit |-> JoinPurchase(hit[k])]

\* ORDER BY p.date DESC: every order of the rows in which no row comes
\* before a row of a later date; the order of rows of one date is not set
\* by the query
OrderByDateDesc(rows) ==
    LET n == Len(rows)
        perms == {f \in [1..n -> 1..n] : \A i, j \in 1..n : i # j => f[i] # f[j]}
    IN { [k \in 1..n |-> rows[f[k]]] : f \in
           {g \in perms : \A i, j \in 1..n :
               i < j => TextGE(rows[g[i]].date, rows[g[j]].date)} }

\* GET /api/purchases
ListPurchases ==
    /\ \E result \in OrderByDateDesc(JoinedPurchases) :
          resp' = [op |-> "ListPurchases", status |-> 200, req |-> NULL,
                   body |-> result]
    /\ UNCHANGED <<ui, issuedIds, usePostgres, items, itemSeq, daily_checks, purchases,
                   purchaseSeq, today, reqs, lastSubmit, nSubmit>>

----------------------------------------------------------------------------
(* Weekly statistics *)

\* date('now', '-7 days')
SqliteCutoff(now) == <<now - 7, 0>>

\* CAST(CURRENT_DATE - INTERVAL '7 days' AS TEXT)
PostgresCutoff(now) == <<now - 7, 1>>

\* Cutoff one day further back
CutoffEightDays(now) == IF usePostgres THEN <<now - 8, 1>> ELSE <<now - 8, 0>>

\* the text the purchase dates are compared with.  SQLite: date('now',
\* '-7 days') is the text "YYYY-MM-DD" of the day 7 days back.  Postgres:
\* CURRENT_DATE - INTERVAL '7 days' is a timestamp, and its CAST to TEXT is
\* "YYYY-MM-DD 00:00:00"
Cutoff(now) == IF usePostgres THEN PostgresCutoff(now) ELSE SqliteCutoff(now)

\* WHERE p.date >= cutoff
InWindow(row, now) == TextGE(row.date, Cutoff(now))

RECURSIVE SumOf(_, _)
\* SUM(column) over the rows; field is "quantity" or "cost"
SumOf(rows, field) ==
    IF rows = <<>> THEN 0
    ELSE Head(rows)[field] + SumOf(Tail(rows), field)

\* the rows of one group of the per-item query
ItemGroup(id, now) ==
    SelectSeq(purchases,
        LAMBDA row : row.item_id = id /\ id \in ItemIds /\ InWindow(row, now))

RECURSIVE SortedIds(_)
\* the ids of a set in ascending order
SortedIds(ids) ==
    IF ids = {} THEN <<>>
    ELSE LET m == CHOOSE x \in ids : \A y \in ids : x <= y
         IN <<m>> \o SortedIds(ids \ {m})

\* the rows of the group of an item's name: GROUP BY i.name
NameGroup(id, now) ==
    SelectSeq(purchases,
        LAMBDA row : /\ row.item_id \in ItemIds
                     /\ ItemById(row.item_id).name = ItemById(id).name
                     /\ InWindow(row, now))

\* WeeklyItems grouped by the name of the item: one row for every name
WeeklyItemsByName(now) ==
    LET first == {id \in ItemIds :
                    \A o \in ItemIds :
                        ItemById(o).name = ItemById(id).name => id <= o}
        ids == SortedIds({id \in first : NameGroup(id, now) # <<>>})
    IN [k \in DOMAIN ids |->
          [name |-> ItemById(ids[k]).name,
           total_quantity |-> SumOf(NameGroup(ids[k], now), "quantity"),
           total_cost |-> SumOf(NameGroup(ids[k], now), "cost")]]

\* SELECT i.name, SUM(p.quantity), SUM(p.cost) ... GROUP BY i.id: one row
\* for every item that has a purchase in the window
WeeklyItems(now) ==
    LET ids == SortedIds({id \in ItemIds : ItemGroup(id, now) # <<>>})
    IN [k \in DOMAIN ids |->
          [name |-> ItemById(ids[k]).name,
           total_quantity |-> SumOf(ItemGroup(ids[k], now), "quantity"),
           total_cost |-> SumOf(ItemGroup(ids[k], now), "cost")]]

\* lower(store) of the store texts of the model
Lower(text) ==
    CASE text = "Coles" -> "coles"
      [] text = "Costco" -> "costco"
      [] OTHER -> text

\* StoreGroup that compares the stores without regard to case
StoreGroupNoCase(store, now) ==
    SelectSeq(purchases,
        LAMBDA row : /\ row.store # NULL
                     /\ Lower(row.store) = Lower(store)
                     /\ InWindow(row, now))

\* the rows of one group of the per-store query
StoreGroup(store, now) ==
    SelectSeq(purchases,
        LAMBDA row : row.store = store /\ row.store # NULL /\ InWindow(row, now))

\* SELECT store, SUM(cost) ... AND store IS NOT NULL GROUP BY store; the
\* array is modelled as the set of its rows, which differ in store
WeeklyStores(now) ==
    LET stores == {purchases[k].store : k \in DOMAIN purchases}
    IN { [store |-> st, total_cost |-> SumOf(StoreGroup(st, now), "cost")] :
           st \in {x \in stores : StoreGroup(x, now) # <<>>} }

\* GET /api/stats/weekly
WeeklyStats ==
    /\ resp' = [op |-> "WeeklyStats", status |-> 200, req |-> today,
                body |-> [items |-> WeeklyItems(today),
                          stores |-> WeeklyStores(today)]]
    /\ UNCHANGED <<ui, issuedIds, usePostgres, items, itemSeq, daily_checks, purchases,
                   purchaseSeq, today, reqs, lastSubmit, nSubmit>>

----------------------------------------------------------------------------
(* The App component (App.tsx): the checklist tab.  An entry of checks is  *)
(* a Partial<DailyCheck>; of its fields the model keeps item_id, status,   *)
(* quantity_needed and is_urgent, and is_urgent holds the truth value of   *)
(* the field, FALSE when the entry has none                                *)

\* the ids of the items the component shows
UiItemIds == {ui.items[k].id : k \in DOMAIN ui.items}

\* { ...prev, [itemId]: entry }
UiPut(checks, itemId, entry) ==
    [id \in DOMAIN checks \cup {itemId} |->
        IF id = itemId THEN entry ELSE checks[id]]

\* fetchItems: GET /api/items and setItems(data)
UiFetchItems ==
    /\ ~ui.isSubmitting
    /\ \E result \in OrderByCategoryName(items) :
          /\ resp' = [op |-> "ListItems", status |-> 200, req |-> NULL,
                      body |-> result]
          /\ ui' = [ui EXCEPT !.items = result]
    /\ UNCHANGED <<issuedIds, usePostgres, items, itemSeq, daily_checks, purchases,
                   purchaseSeq, today, reqs, lastSubmit, nSubmit>>

RECURSIVE CheckMap(_)
\* data.forEach(c => { checkMap[c.item_id] = c; })
CheckMap(data) ==
    IF data = <<>> THEN <<>>
    ELSE LET c == data[Len(data)]
         IN UiPut(CheckMap(SubSeq(data, 1, Len(data) - 1)), c.item_id,
                  [item_id |-> c.item_id, status |-> c.status,
                   quantity_needed |-> c.quantity_needed,
                   is_urgent |-> Truthy(c.is_urgent)])

\* fetchTodayChecks: GET /api/checks/today; when rows come back the
\* component takes them as its entries and is in the state Check Complete
UiFetchTodayChecks ==
    /\ ~ui.isSubmitting
    /\ LET data == TodaysChecks(IsoDate(today))
       IN /\ resp' = [op |-> "GetTodaysChecks", status |-> 200,
                      req |-> IsoDate(today), body |-> data]
          /\ ui' = IF Len(data) > 0
                   THEN [ui EXCEPT !.checks = CheckMap(data),
                                   !.staffName = data[1].staff_name,
                                   !.isMorningCheckDone = TRUE]
                   ELSE ui
    /\ UNCHANGED <<issuedIds, usePostgres, items, itemSeq, daily_checks, purchases,
                   purchaseSeq, today, reqs, lastSubmit, nSubmit>>

\* setStaffName from the input, which is disabled in Check Complete
UiSetStaffName(name) ==
    /\ ~ui.isMorningCheckDone
    /\ ui' = [ui EXCEPT !.staffName = name]
    /\ UNCHANGED <<issuedIds, usePostgres, items, itemSeq, daily_checks, purchases,
                   purchaseSeq, today, reqs, resp, lastSubmit, nSubmit>>

\* handleStatusChange, from a StatusBtn of a shown item
UiStatusChange(itemId, status) ==
    /\ ~ui.isMorningCheckDone
    /\ itemId \in UiItemIds
    /\ ui' = [ui EXCEPT !.checks =
                 UiPut(@, itemId,
                       [item_id |-> itemId, status |-> status,
                        quantity_needed |-> 0,
                        is_urgent |-> IF itemId \in DOMAIN @
                                      THEN @[itemId].is_urgent ELSE FALSE]),
                        !.edits = @ + 1]
    /\ UNCHANGED <<issuedIds, usePostgres, items, itemSeq, daily_checks, purchases,
                   purchaseSeq, today, reqs, resp, lastSubmit, nSubmit>>

\* `check?.status || 'enough'`: the status CheckItem displays
Displayed(itemId) ==
    IF itemId \in DOMAIN ui.checks THEN ui.checks[itemId].status ELSE "enough"

\* handleUrgentToggle, from the urgent button, which CheckItem renders when
\* the displayed status is not 'enough'
UiUrgentToggle(itemId) ==
    /\ ~ui.isMorningCheckDone
    /\ itemId \in UiItemIds
    /\ Displayed(itemId) # "enough"
    /\ ui' = [ui EXCEPT !.checks =
                 UiPut(@, itemId,
                       [@[itemId] EXCEPT !.is_urgent = ~@]),
                        !.edits = @ + 1]
    /\ UNCHANGED <<issuedIds, usePostgres, items, itemSeq, daily_checks, purchases,
                   purchaseSeq, today, reqs, resp, lastSubmit, nSubmit>>

\* Object.values(checks).filter(c => !!c.status): the entries in ascending
\* order of their keys
Payload(checks) ==
    LET ids == SortedIds({id \in DOMAIN checks : checks[id].status # NULL})
    IN [k \in DOMAIN ids |-> checks[ids[k]]]

\* submitChecklist up to the fetch, from the button Generate Daily Report,
\* which is rendered outside Check Complete and disabled while submitting
\* or without a staff name
UiSubmitSend ==
    /\ ~ui.isMorningCheckDone
    /\ ~ui.isSubmitting
    /\ ui.staffName # ""
    /\ ui' = [ui EXCEPT !.isSubmitting = TRUE,
                        !.payload = Payload(ui.checks),
                        !.sentAt = nSubmit]
    /\ UNCHANGED <<issuedIds, usePostgres, items, itemSeq, daily_checks, purchases,
                   purchaseSeq, today, reqs, resp, lastSubmit, nSubmit>>

\* the body of the POST /api/checks the component has sent
UiBody == [items |-> ui.payload, staff_name |-> ui.staffName]

\* the server has not handled the request the component sent
UiPending == ui.isSubmitting /\ nSubmit = ui.sentAt

\* the answer to the request the component sent is there
UiAnswered ==
    /\ ui.isSubmitting
    /\ nSubmit > ui.sentAt
    /\ InFlight = {}
    /\ resp.op = "SubmitChecklist"

\* submitChecklist after the fetch resolved: fetch resolves for every
\* answer of the server, whatever its status, and the status is not read
UiSubmitReceive ==
    /\ UiAnswered
    /\ ui' = [ui EXCEPT !.isSubmitting = FALSE,
                        !.isMorningCheckDone = TRUE,
                        !.alert = "Checklist submitted successfully!"]
    /\ UNCHANGED <<issuedIds, usePostgres, items, itemSeq, daily_checks, purchases,
                   purchaseSeq, today, reqs, resp, lastSubmit, nSubmit>>

\* submitChecklist when the fetch rejects (no answer came): the catch logs
\* and the finally clears isSubmitting
UiSubmitNetworkError ==
    /\ ui.isSubmitting
    /\ ui' = [ui EXCEPT !.isSubmitting = FALSE]
    /\ UNCHANGED <<issuedIds, usePostgres, items, itemSeq, daily_checks, purchases,
                   purchaseSeq, today, reqs, resp, lastSubmit, nSubmit>>

\* the button Edit Checklist: setIsMorningCheckDone(false)
UiEdit ==
    /\ ui.isMorningCheckDone
    /\ ui' = [ui EXCEPT !.isMorningCheckDone = FALSE]
    /\ UNCHANGED <<issuedIds, usePostgres, items, itemSeq, daily_checks, purchases,
                   purchaseSeq, today, reqs, resp, lastSubmit, nSubmit>>

----------------------------------------------------------------------------
(* Properties of the two totals of the weekly statistics *)

RECURSIVE SumCost(_)
\* the sum of total_cost over the rows of the per-store part
SumCost(rows) ==
    IF rows = {} THEN 0
    ELSE LET g == CHOOSE x \in rows : TRUE
         IN g.total_cost + SumCost(rows \ {g})

\* every purchase the window of the queries holds has a store
WindowHasStores ==
    \A k \in DOMAIN purchases :
        InWindow(purchases[k], today) => purchases[k].store # NULL

----------------------------------------------------------------------------
(* Properties of the ids of items *)

\* C25: no id is used twice: the id CreateItem returns is the id of the row
\* it stored and of no item there ever was, deleted ones included, every
\* row that enters the table has such an id, and a row that stays keeps its
\* columns, so the item an id names is the same for as long as it exists
C25_IdsNeverReused ==
    [][ /\ ( /\ \E body \in ItemBodies : CreateItem(body)
             /\ resp'.status = 200 )
           => /\ resp'.body.id \notin issuedIds
              /\ \E i \in items' : i.id = resp'.body.id /\ i \notin items
        /\ \A i \in items' : i \notin items => i.id \notin issuedIds
        /\ \A i \in items, j \in items' : i.id = j.id => i = j
        /\ ItemIds \subseteq issuedIds ]_vars

\* an item created after the item with the id before its own was deleted
C25_Witness ==
    /\ resp.op = "CreateItem"
    /\ resp.status = 200
    /\ resp.body.id \in ItemIds
    /\ resp.body.id - 1 \in issuedIds \ ItemIds

----------------------------------------------------------------------------
(* Properties of the frame of a submission *)

\* the rows of the dates other than date, in table order
OtherDates(rows, date) == SelectSeq(rows, LAMBDA row : row.date # date)

\* a step leaves the rows of the other dates, the items and the purchases
\* as they are
KeepsAllBut(date) ==
    /\ OtherDates(daily_checks', date) = OtherDates(daily_checks, date)
    /\ items' = items
    /\ purchases' = purchases

\* C23: every step of POST /api/checks for day D, of a submission that
\* succeeds and of one that fails, leaves the DailyCheck rows of the other
\* dates, the items and the purchases unchanged
C23_SubmitFrame ==
    [][ /\ (\E body \in ChecklistBodies : SubmitChecklist(body))
           => KeepsAllBut(IsoDate(today))
        /\ \A r \in DOMAIN reqs :
              /\ (\E body \in ChecklistBodies : PgSubmitStart(r, body))
                 => KeepsAllBut(IsoDate(today))
              /\ (PgSubmitDelete(r) \/ PgSubmitInsert(r) \/ PgSubmitRespond(r))
                 => KeepsAllBut(reqs[r].date) ]_vars

\* a submission that failed on a day with rows of an earlier day and a
\* purchase stored, after it changed the rows of its own day
C23_Witness ==
    /\ resp.op = "SubmitChecklist"
    /\ resp.status = 500
    /\ RowsOf(resp.req.date) # resp.req.before
    /\ OtherDates(daily_checks, resp.req.date) # <<>>
    /\ purchases # <<>>

----------------------------------------------------------------------------
(* Properties of the App component *)

\* C22: the payload submitChecklist sends holds exactly one entry for every
\* item the component got from ListItems, the items left at the displayed
\* default 'enough' included
C22_PayloadCoversItems ==
    [][UiSubmitSend
       => /\ {ui'.payload[k].item_id : k \in DOMAIN ui'.payload} = UiItemIds
          /\ Len(ui'.payload) = Cardinality(UiItemIds)]_vars

\* C26: when POST /api/checks answers with an error status the component
\* does not enter Check Complete and shows no success message
C26_CompleteOnlyIfPersisted ==
    [][(UiSubmitReceive /\ resp.status # 200)
       => /\ ~ui'.isMorningCheckDone
          /\ ui'.alert # "Checklist submitted successfully!"]_vars

\* C27: every entry of a submitted payload with status 'enough' has
\* is_urgent false
C27_EnoughNeverUrgent ==
    \A k \in DOMAIN ui.payload :
        ui.payload[k].status = "enough" => ~ui.payload[k].is_urgent

----------------------------------------------------------------------------
(* Properties of the checklist *)

\* the rows a submission stores when all of it is applied
StoredBatch(req) ==
    [k \in DOMAIN req.items |->
        CheckRow(req.date, req.items[k], req.staff_name)]

\* what a client sees of a checklist row
Seen(row) ==
    [item_id |-> row.item_id, status |-> row.status,
     is_urgent |-> Truthy(row.is_urgent), staff_name |-> row.staff_name]

\* what a client sent for one entry
Sent(check, staff_name) ==
    [item_id |-> check.item_id, status |-> check.status,
     is_urgent |-> check.is_urgent, staff_name |-> staff_name]

Count(s, x) == Cardinality({k \in DOMAIN s : s[k] = x})

\* the two sequences hold the same elements the same number of times
SameRows(s, t) ==
    /\ Len(s) = Len(t)
    /\ \A x \in Range(s) \cup Range(t) : Count(s, x) = Count(t, x)

\* C1: a checklist submission that fails leaves the rows of its date exactly
\* as they were before the call (stated for a request that no other
\* checklist request overlaps)
C1_SubmitAtomic ==
    ( /\ resp.op = "SubmitChecklist"
      /\ resp.status = 500
      /\ ~resp.req.overlapped
      /\ InFlight = {} )
    => RowsOf(resp.req.date) = resp.req.before

\* C2: after two checklist submissions that succeeded one after the other
\* on one day, the read of that day's checks returns exactly the entries of
\* the later one, with its staff name, and no row of the earlier one
C2_ReplaceSemantics ==
    ( /\ resp.op = "GetTodaysChecks"
      /\ lastSubmit # NoSubmit
      /\ lastSubmit.date = resp.req )
    => SameRows([k \in DOMAIN resp.body |-> Seen(resp.body[k])],
                [k \in DOMAIN lastSubmit.items |->
                    Sent(lastSubmit.items[k], lastSubmit.staff_name)])

\* a read of the day's checks after a submission that replaced rows of an
\* earlier submission which had given one of its items another status
C2_Witness ==
    /\ resp.op = "GetTodaysChecks"
    /\ lastSubmit # NoSubmit
    /\ lastSubmit.date = resp.req
    /\ \E i \in DOMAIN lastSubmit.before, j \in DOMAIN lastSubmit.items :
          /\ lastSubmit.before[i].item_id = lastSubmit.items[j].item_id
          /\ lastSubmit.before[i].status # lastSubmit.items[j].status
    /\ \E i \in DOMAIN lastSubmit.before :
          \A j \in DOMAIN lastSubmit.items :
              lastSubmit.before[i].item_id # lastSubmit.items[j].item_id

\* C3: when the checklist requests of two clients for one day overlapped
\* and both were answered with success, the rows of the day are the batch
\* of one of the two
C3_LastWriteWins ==
    ( /\ \A c \in Clients : reqs[c].pc = "ok" /\ reqs[c].overlapped
      /\ reqs["a"].date = reqs["b"].date )
    => \E c \in Clients : RowsOf(reqs[c].date) = StoredBatch(reqs[c])

\* C4: the table holds at most one row for a date and an item
C4_OnePerDateItem ==
    \A i, j \in DOMAIN daily_checks :
        ( /\ daily_checks[i].date = daily_checks[j].date
          /\ daily_checks[i].item_id = daily_checks[j].item_id ) => i = j

\* C20: all rows of daily_checks of one date carry the same staff_name
C20_OneStaffPerDate ==
    \A i, j \in DOMAIN daily_checks :
        daily_checks[i].date = daily_checks[j].date
        => daily_checks[i].staff_name = daily_checks[j].staff_name

\* C12: every row of daily_checks has quantity_needed 0, whatever
\* quantity_needed the entries of the request carried
C12_QuantityAlwaysZero ==
    \A k \in DOMAIN daily_checks : daily_checks[k].quantity_needed = 0

\* C13: every row of daily_checks has a status among enough, low and
\* critical, on either backend
C13_StatusInEnum ==
    \A k \in DOMAIN daily_checks : daily_checks[k].status \in StockStatus

----------------------------------------------------------------------------
(* Properties of purchases and of the weekly statistics *)

\* the purchases of an item dated from day lo to day hi, both included
DatedWithin(id, lo, hi) ==
    SelectSeq(purchases,
        LAMBDA row : row.item_id = id /\ lo <= row.date[1] /\ row.date[1] <= hi)

\* the per-item rows over the purchases dated from day lo to day hi
ItemTotals(lo, hi) ==
    LET ids == SortedIds({id \in ItemIds : DatedWithin(id, lo, hi) # <<>>})
    IN [k \in DOMAIN ids |->
          [name |-> ItemById(ids[k]).name,
           total_quantity |-> SumOf(DatedWithin(ids[k], lo, hi), "quantity"),
           total_cost |-> SumOf(DatedWithin(ids[k], lo, hi), "cost")]]

\* C5 as claimed: the per-item totals of the weekly statistics called on
\* day now are the sums over exactly the purchases dated from now - 6 to now
C5_WeeklyWindow ==
    resp.op = "WeeklyStats"
    => SameRows(resp.body.items, ItemTotals(resp.req - 6, resp.req))

\* C5: the per-item totals of the weekly statistics called on day now are
\* the sums over the purchases of the item dated from a first day to now,
\* where the first day is now - 7 or now - 6: every purchase dated from
\* now - 6 to now is counted and none dated before now - 7 is
C5_WeeklyWindowFrom7 ==
    resp.op = "WeeklyStats"
    => \E lo \in {resp.req - 7, resp.req - 6} :
          SameRows(resp.body.items, ItemTotals(lo, resp.req))

\* weekly statistics with a row, called when one purchase is dated more
\* than 7 days back and another one within the last 7 days
C5_Witness ==
    /\ resp.op = "WeeklyStats"
    /\ resp.req = today
    /\ Len(resp.body.items) > 0
    /\ \E k \in DOMAIN purchases : purchases[k].date[1] < today - 7
    /\ \E k \in DOMAIN purchases : purchases[k].date[1] >= today - 6

\* C6: the weekly statistics count a purchase dated exactly 7 days before
\* the call and none dated 8 days before it: the per-item totals are the
\* sums over the purchases dated from now - 7 to now
C6_WindowBoundary ==
    resp.op = "WeeklyStats"
    => SameRows(resp.body.items, ItemTotals(resp.req - 7, resp.req))

\* C7: the list of purchases starts with the purchase recorded last, and
\* its name is the name of the item the purchase refers to
C7_NewPurchaseFirst ==
    (resp.op = "ListPurchases" /\ purchases # <<>>)
    => /\ Len(resp.body) > 0
       /\ resp.body[1].id = purchases[Len(purchases)].id
       /\ resp.body[1].name = ItemById(purchases[Len(purchases)].item_id).name

\* the row of the weekly statistics that holds the sums over the purchases of
\* one item dated from day lo to day hi
OwnTotals(id, lo, hi) ==
    [name |-> ItemById(id).name,
     total_quantity |-> SumOf(DatedWithin(id, lo, hi), "quantity"),
     total_cost |-> SumOf(DatedWithin(id, lo, hi), "cost")]

\* C15: the per-item part of the weekly statistics has one row for every
\* item id that has a purchase in the window, also when two of these items
\* have the same name, each row holds the sums over the purchases of its own
\* item alone, and an item without a purchase in the window has no row (the
\* window starts 7 or 6 days before the call)
C15_PerItemIdentity ==
    [][ WeeklyStats
        => \E lo \in {today - 7, today - 6} :
             LET ids == {id \in ItemIds : DatedWithin(id, lo, today) # <<>>}
                 rows == resp'.body.items
             IN /\ Len(rows) = Cardinality(ids)
                /\ \E f \in [DOMAIN rows -> ids] :
                      /\ \A i, j \in DOMAIN rows : i # j => f[i] # f[j]
                      /\ \A k \in DOMAIN rows :
                            rows[k] = OwnTotals(f[k], lo, today) ]_vars

\* weekly statistics with exactly two rows, which carry the same name and
\* different totals, while a third item's only purchase is dated more than
\* 7 days back
C15_Witness ==
    /\ resp.op = "WeeklyStats"
    /\ resp.req = today
    /\ Len(resp.body.items) = 2
    /\ resp.body.items[1].name = resp.body.items[2].name
    /\ resp.body.items[1].total_quantity # resp.body.items[2].total_quantity
    /\ \E k \in DOMAIN purchases :
          /\ purchases[k].date[1] < today - 7
          /\ purchases[k].item_id \in ItemIds
          /\ \A j \in DOMAIN purchases :
                j # k => purchases[j].item_id # purchases[k].item_id

\* the purchases of a store dated from day lo to day hi, both included; the
\* stores are compared as they are written
StoreWithin(store, lo, hi) ==
    SelectSeq(purchases,
        LAMBDA row : row.store = store /\ lo <= row.date[1] /\ row.date[1] <= hi)

\* C16 as claimed: the total of a store in the weekly statistics is the sum
\* of cost over the purchases in the window whose store is written exactly
\* so, and every purchase in the window is counted in the group of its
\* store (the window starts 7 or 6 days before the call)
C16_StoreTotals ==
    resp.op = "WeeklyStats"
    => \E lo \in {resp.req - 7, resp.req - 6} :
          /\ \A g \in resp.body.stores :
                g.total_cost = SumOf(StoreWithin(g.store, lo, resp.req), "cost")
          /\ \A k \in DOMAIN purchases :
                (lo <= purchases[k].date[1] /\ purchases[k].date[1] <= resp.req)
                => Cardinality({g \in resp.body.stores :
                                    g.store = purchases[k].store}) = 1

\* C16: the total of a store in the weekly statistics is the sum of cost
\* over the purchases in the window whose store is written exactly so; every
\* purchase in the window that has a store is counted in the group of its
\* store and in no other, and a purchase without a store is in no group
\* (the window starts 7 or 6 days before the call)
C16_StoreTotalsNotNull ==
    resp.op = "WeeklyStats"
    => \E lo \in {resp.req - 7, resp.req - 6} :
          /\ \A g \in resp.body.stores :
                /\ g.store # NULL
                /\ g.total_cost = SumOf(StoreWithin(g.store, lo, resp.req), "cost")
          /\ \A k \in DOMAIN purchases :
                ( /\ lo <= purchases[k].date[1]
                  /\ purchases[k].date[1] <= resp.req
                  /\ purchases[k].store # NULL )
                => Cardinality({g \in resp.body.stores :
                                    g.store = purchases[k].store}) = 1

\* weekly statistics with a group for "coles" and one for "Coles", called
\* when a purchase without a store lies in the window
C16_Witness ==
    /\ resp.op = "WeeklyStats"
    /\ resp.req = today
    /\ \E g, h \in resp.body.stores : g.store = "coles" /\ h.store = "Coles"
    /\ \E k \in DOMAIN purchases :
          purchases[k].store = NULL /\ purchases[k].date[1] >= today - 6

\* C21: the two backends give the same results from the same stored rows
\* and the same clock: whenever the weekly statistics are computed, the
\* purchases the Postgres query takes into the window are those the SQLite
\* query takes
C21_BackendsAgree ==
    resp.op = "WeeklyStats"
    => \A k \in DOMAIN purchases :
          TextGE(purchases[k].date, PostgresCutoff(resp.req))
          <=> TextGE(purchases[k].date, SqliteCutoff(resp.req))

\* C11: a purchase recorded for an item_id that names no item is answered
\* with the foreign key error, and the purchases table keeps exactly the
\* rows it had
C11_PurchaseUnknownItem ==
    [][ \A body \in PurchaseBodies :
          (RecordPurchase(body) /\ body.item_id \notin ItemIds)
          => /\ resp'.status = 500
             /\ resp'.body = [error |-> "FOREIGN KEY constraint failed"]
             /\ purchases' = purchases ]_vars

\* a purchase was refused for an id that had named an item until the item
\* was deleted, while the table holds a purchase of another item
C11_Witness ==
    /\ resp.op = "RecordPurchase"
    /\ resp.status = 500
    /\ resp.req.item_id \notin ItemIds
    /\ resp.req.item_id <= itemSeq
    /\ purchases # <<>>

----------------------------------------------------------------------------
(* Properties of items *)

\* C8 as claimed: the delete of an item that rows refer to answers success
\* and removes the item
C8_DeleteOrphans ==
    ( /\ resp.op = "DeleteItem"
      /\ resp.req.existed
      /\ resp.req.referenced )
    => resp.status = 200 /\ resp.req.id \notin ItemIds

\* C8: the delete of an item that daily_checks or purchases rows refer to
\* answers with an error, keeps the item and changes no row of items,
\* daily_checks or purchases
C8_DeleteBlocked ==
    [][ \A id \in ItemIdInputs :
          (DeleteItem(id) /\ id \in ItemIds /\ Referenced(id))
          => /\ resp'.status = 500
             /\ items' = items
             /\ daily_checks' = daily_checks
             /\ purchases' = purchases ]_vars

\* a delete was refused for an item that a checklist row and a purchase
\* refer to
C8_Witness ==
    /\ resp.op = "DeleteItem"
    /\ resp.status = 500
    /\ resp.req.existed
    /\ \E k \in DOMAIN daily_checks : daily_checks[k].item_id = resp.req.id
    /\ \E k \in DOMAIN purchases : purchases[k].item_id = resp.req.id

\* C9: the delete of an id that names no item answers success and changes
\* no row of items, daily_checks or purchases; and after any delete of an
\* id, one more delete of that id would leave the three tables as they are
C9_DeleteIdempotent ==
    [][ \A id \in ItemIdInputs :
          DeleteItem(id)
          => /\ id \notin ItemIds
                => /\ resp'.status = 200
                   /\ items' = items
                   /\ daily_checks' = daily_checks
                   /\ purchases' = purchases
             /\ (DeleteStmt(id).items)' = items'
             /\ resp'.status = 200 => id \notin ItemIds' ]_vars

\* a delete answered success for an id that had named an item before and
\* names none now, while rows of the other tables exist
C9_Witness ==
    /\ resp.op = "DeleteItem"
    /\ resp.status = 200
    /\ ~resp.req.existed
    /\ resp.req.id <= itemSeq
    /\ daily_checks # <<>>
    /\ purchases # <<>>

\* C14: the list of items holds every row of items exactly once, and of two
\* rows of the list the earlier one has the smaller category, or the same
\* category and a name that is not greater
C14_ListSorted ==
    [][ ListItems
        => /\ Len(resp'.body) = Cardinality(items)
           /\ Range(resp'.body) = items
           /\ \A i, j \in DOMAIN resp'.body :
                 i < j =>
                   LET r == resp'.body[i]
                       q == resp'.body[j]
                   IN \/ BytesLT(Bytes(r.category), Bytes(q.category))
                      \/ /\ Bytes(r.category) = Bytes(q.category)
                         /\ \/ BytesLT(Bytes(r.name), Bytes(q.name))
                            \/ Bytes(r.name) = Bytes(q.name) ]_vars

\* a list of at least four items in which two created items come before a
\* seeded one, one item comes before an item of its category that was
\* created before it, the category decides against the name for two items,
\* and two items agree in category and name
C14_Witness ==
    /\ resp.op = "ListItems"
    /\ Len(resp.body) >= 4
    /\ resp.body[1].id > SeedLen
    /\ resp.body[2].id > SeedLen
    /\ \E i, j \in DOMAIN resp.body :
          /\ i < j
          /\ resp.body[i].category = resp.body[j].category
          /\ resp.body[i].name # resp.body[j].name
          /\ resp.body[i].id > resp.body[j].id
    /\ \E i, j \in DOMAIN resp.body :
          /\ i < j
          /\ BytesLT(Bytes(resp.body[j].name), Bytes(resp.body[i].name))
    /\ \E i, j \in DOMAIN resp.body :
          /\ i < j
          /\ resp.body[i].category = resp.body[j].category
          /\ resp.body[i].name = resp.body[j].name

\* C17: every step keeps every row of purchases, in its place and with all
\* its fields
C17_PurchasesAppendOnly ==
    [][ \A k \in DOMAIN purchases :
          k \in DOMAIN purchases' /\ purchases'[k] = purchases[k] ]_vars

\* a delete was asked for the item of a stored purchase, after an item was
\* created and a checklist was submitted
C17_Witness ==
    /\ purchases # <<>>
    /\ resp.op = "DeleteItem"
    /\ resp.req.id = purchases[1].item_id
    /\ \E i \in items : i.id > SeedLen
    /\ daily_checks # <<>>

\* C18: the starter catalog is inserted by the first start alone: a later
\* start of the process inserts no row into items, also when items is empty
C18_SeedOnce ==
    [][ Restart => items' = items ]_vars

\* C19: an operation whose storage call failed ends with an error the
\* caller can tell from success: a request whose statement is rejected is
\* answered 500, and a start during which a statement fails does not go on
\* to serve requests
C19_FailuresSurface ==
    [][ /\ \A body \in ItemBodies :
              (CreateItem(body) /\ ~ItemInsertOk(body)) => resp'.status = 500
        /\ \A body \in PurchaseBodies :
              (RecordPurchase(body) /\ ~InsertPurchaseOk(body))
              => resp'.status = 500
        /\ \A id \in 1..MaxRestartSeq :
              (DeleteItem(id) /\ ~DeleteStmt(id).ok) => resp'.status = 500
        /\ \A k \in 0..SeedLen :
              StartFault(k) => resp'.body # "serving" ]_vars

\* C10: the creation of an item with an empty name or an empty category is
\* answered with an error, and no item has an empty name or category
C10_EmptyNameRejected ==
    /\ ( /\ resp.op = "CreateItem"
         /\ resp.req.name = "" \/ resp.req.category = "" )
       => resp.status # 200
    /\ \A i \in items : i.name # "" /\ i.category # ""

----------------------------------------------------------------------------
(* The checklist specification: submissions, the read of today's checks,   *)
(* deletion of items and the clock up to MaxCheckDay                       *)

NextChecks ==
    \/ nSubmit < MaxSubmits /\ \E body \in ChecklistBodies : SubmitChecklist(body)
    \/ nSubmit < MaxSubmits /\ \E body \in ChecklistBodies : PgSubmitStart("a", body)
    \/ PgSubmitDelete("a")
    \/ PgSubmitInsert("a")
    \/ PgSubmitRespond("a")
    \/ GetTodaysChecks
    \/ \E id \in ItemIdInputs : DeleteItem(id)
    \/ Tick(MaxCheckDay)

SpecChecks == Init /\ [][NextChecks]_vars

----------------------------------------------------------------------------
(* The frame specification: submissions on two days, with a purchase and   *)
(* deletion of seeded items between them; the clock moves from day 0 to    *)
(* day MaxCheckDay in one step                                             *)

\* the purchases of the first seeded item
FramePurchaseBodies == {body \in PurchaseBodies : body.item_id = 1}

\* the checklists of one entry, of two entries, and of an entry SQLite
\* refuses
FrameBodies ==
    {body \in ChecklistBodies :
        body.items \in {<<Low1>>, <<Enough1, Critical2>>, <<Low1, Spoiled2>>}}

NextFrame ==
    \/ nSubmit < MaxFrameSubmits /\ \E body \in FrameBodies : SubmitChecklist(body)
    \/ nSubmit < MaxFrameSubmits /\ \E body \in FrameBodies : PgSubmitStart("a", body)
    \/ PgSubmitDelete("a")
    \/ PgSubmitInsert("a")
    \/ PgSubmitRespond("a")
    \/ purchaseSeq < MaxItemPurchases /\ \E body \in FramePurchaseBodies : RecordPurchase(body)
    \/ \E id \in 1..SeedLen : DeleteItem(id)
    \/ Tick(MaxCheckDay) /\ today' = MaxCheckDay

SpecFrame == Init /\ [][NextFrame]_vars

----------------------------------------------------------------------------
(* The overlap specification: checklist requests of two clients on one day *)

NextOverlap ==
    \/ nSubmit < MaxOverlap /\ \E body \in ChecklistBodies : SubmitChecklist(body)
    \/ nSubmit < MaxOverlap /\ \E r \in Clients, body \in ChecklistBodies : PgSubmitStart(r, body)
    \/ \E r \in Clients : PgSubmitDelete(r)
    \/ \E r \in Clients : PgSubmitInsert(r)
    \/ \E r \in Clients : PgSubmitRespond(r)

SpecOverlap == Init /\ [][NextOverlap]_vars

----------------------------------------------------------------------------
(* The purchases specification: purchases, their list and deletion of      *)
(* items, with the clock up to MaxCheckDay                                 *)

NextPurchases ==
    \/ purchaseSeq < MaxPurchaseSeq /\ \E body \in PurchaseBodies : RecordPurchase(body)
    \/ ListPurchases
    \/ \E id \in ItemIdInputs : DeleteItem(id)
    \/ Tick(MaxCheckDay)

SpecPurchases == Init /\ [][NextPurchases]_vars

----------------------------------------------------------------------------
(* The statistics specification: purchases and the weekly statistics, with *)
(* the clock up to MaxDay                                                  *)

NextStats ==
    \/ purchaseSeq < MaxPurchaseSeq /\ \E body \in PurchaseBodies : RecordPurchase(body)
    \/ WeeklyStats
    \/ Tick(MaxDay)

SpecStats == Init /\ [][NextStats]_vars

----------------------------------------------------------------------------
(* The items specification: creation and deletion of items, with           *)
(* one-entry checklists and purchases that refer to them, on one day       *)

\* the checklists of one entry
OneEntryBodies == {body \in ChecklistBodies : Len(body.items) = 1}

NextItems ==
    \/ itemSeq < MaxItemSeq /\ \E body \in ItemBodies : CreateItem(body)
    \/ \E id \in ItemIdInputs : DeleteItem(id)
    \/ purchaseSeq < MaxItemPurchases /\ \E body \in PurchaseBodies : RecordPurchase(body)
    \/ nSubmit < MaxItemSubmits /\ \E body \in OneEntryBodies : SubmitChecklist(body)
    \/ nSubmit < MaxItemSubmits /\ \E body \in OneEntryBodies : PgSubmitStart("a", body)
    \/ PgSubmitDelete("a")
    \/ PgSubmitInsert("a")
    \/ PgSubmitRespond("a")

SpecItems == Init /\ [][NextItems]_vars

----------------------------------------------------------------------------
(* The item list specification: creation and deletion of items and the     *)
(* list of items                                                           *)

NextList ==
    \/ itemSeq < MaxListSeq /\ \E body \in ItemBodies : CreateItem(body)
    \/ \E id \in 1..MaxListSeq : DeleteItem(id)
    \/ ListItems

SpecList == Init /\ [][NextList]_vars

----------------------------------------------------------------------------
(* The same-name specification: an item created with the name of a seeded  *)
(* item, purchases of both and of a third item, and the weekly statistics; *)
(* the clock moves from day 0 to day MaxDay in one step                    *)

\* a request body of POST /api/items that carries the name of the item
\* seeded second
TwinBodies ==
    { [name |-> initialItems[SeedLen].name,
       category |-> initialItems[SeedLen].category, min_level |-> 0,
       is_core |-> FALSE, unit |-> "cartons"] }

\* purchases of the first seeded item, of the last one and of the item
\* created first
TwinPurchaseBodies ==
    { [item_id |-> 1, quantity |-> 5, cost |-> 12, store |-> "Costco"],
      [item_id |-> SeedLen, quantity |-> 1, cost |-> 4, store |-> "Coles"],
      [item_id |-> SeedLen + 1, quantity |-> 4, cost |-> 9, store |-> "Coles"] }

NextTwins ==
    \/ itemSeq < MaxItemSeq /\ \E body \in TwinBodies : CreateItem(body)
    \/ purchaseSeq < MaxTwinPurchases /\ \E body \in TwinPurchaseBodies : RecordPurchase(body)
    \/ WeeklyStats
    \/ Tick(MaxDay) /\ today' = MaxDay

SpecTwins == Init /\ [][NextTwins]_vars

----------------------------------------------------------------------------
(* The stores specification: purchases and the weekly statistics; the      *)
(* clock moves from day 0 to day MaxDay in one step                        *)

NextStores ==
    \/ purchaseSeq < MaxStorePurchases /\ \E body \in PurchaseBodies : RecordPurchase(body)
    \/ WeeklyStats
    \/ Tick(MaxDay) /\ today' = MaxDay

SpecStores == Init /\ [][NextStores]_vars

----------------------------------------------------------------------------
(* The totals specification: purchases, deletion of seeded items and the   *)
(* weekly statistics; the clock moves from day 0 to day MaxDay in one step *)

NextTotals ==
    \/ purchaseSeq < MaxPurchaseSeq /\ \E body \in PurchaseBodies : RecordPurchase(body)
    \/ \E id \in 1..SeedLen : DeleteItem(id)
    \/ WeeklyStats
    \/ Tick(MaxDay) /\ today' = MaxDay

SpecTotals == Init /\ [][NextTotals]_vars

----------------------------------------------------------------------------
(* The restart specification: creation and deletion of items and restarts  *)
(* of the process                                                          *)

NextRestart ==
    \/ itemSeq < MaxItemSeq /\ \E body \in ItemBodies : CreateItem(body)
    \/ \E id \in 1..MaxRestartSeq : DeleteItem(id)
    \/ itemSeq + SeedLen <= MaxRestartSeq /\ Restart

SpecRestart == Init /\ [][NextRestart]_vars

----------------------------------------------------------------------------
(* The faults specification: starts of the process during which the        *)
(* storage fails, restarts, and requests whose statement is rejected       *)

NextFaults ==
    \/ Up /\ itemSeq < MaxItemSeq /\ \E body \in ItemBodies : CreateItem(body)
    \/ Up /\ \E id \in 1..MaxRestartSeq : DeleteItem(id)
    \/ Up /\ purchaseSeq < MaxItemPurchases /\ \E body \in PurchaseBodies : RecordPurchase(body)
    \/ itemSeq + SeedLen <= MaxRestartSeq /\ Restart
    \/ itemSeq + SeedLen <= MaxRestartSeq /\ \E k \in 0..SeedLen : StartFault(k)

SpecFaults == Init /\ [][NextFaults]_vars

----------------------------------------------------------------------------
(* The App specification: one browser with the checklist tab, its POST     *)
(* /api/checks handled by the server, and deletions of shown items by      *)
(* another client between the requests of the component                    *)

StaffInputs == {"Alex"}

NextApp ==
    \/ UiFetchItems
    \/ UiFetchTodayChecks
    \/ \E name \in StaffInputs : UiSetStaffName(name)
    \/ ui.edits < MaxAppEdits /\ \E id \in ItemIdInputs, status \in StockStatus : UiStatusChange(id, status)
    \/ ui.edits < MaxAppEdits /\ \E id \in ItemIdInputs : UiUrgentToggle(id)
    \/ nSubmit < MaxAppSubmits /\ UiSubmitSend
    \/ UiPending /\ SubmitChecklist(UiBody)
    \/ UiPending /\ PgSubmitStart("a", UiBody)
    \/ PgSubmitDelete("a")
    \/ PgSubmitInsert("a")
    \/ PgSubmitRespond("a")
    \/ UiSubmitReceive
    \/ UiSubmitNetworkError
    \/ UiEdit
    \/ ~ui.isSubmitting /\ \E id \in UiItemIds : DeleteItem(id)

SpecApp == Init /\ [][NextApp]_vars

====
